---------------------------- MODULE Spec2Model ----------------------------
(***************************************************************************)
(* State-machine model of the deferred path-tracing renderer               *)
(* (src/main.cpp, src/mesh.cpp): the render loop and its background EXR     *)
(* decode task, the GLFW pointer callbacks, the camera orientation update   *)
(* and the material packer.                                                 *)
(*                                                                          *)
(* Numbers.  Floating-point lengths and matrix entries are fixed-point      *)
(* integers with FX units per 1.0, every product, quotient and square root  *)
(* rounded to the nearest unit.  Angles are integers in tenths of a degree, *)
(* so that a pointer offset of one pixel times the sensitivity 0.1 is one   *)
(* unit.  A vec3 is a tuple <<x, y, z>>; the affine mat4 is the record of   *)
(* its four columns c0..c3 (glm is column-major), the bottom row being      *)
(* (0, 0, 0, 1) in every transform the program builds.                      *)
(***************************************************************************)
EXTENDS Integers, Sequences, FiniteSets, TLC

\* ------------------------------------------------------------ bounds
MaxFrames == 3          \* iterations of the render loop that are explored
MaxMeshes == 2          \* submeshes load_model may return
MaxYaw == 1800          \* |yaw| explored, tenths of a degree (yaw is unbounded)
MaxMaterials == 2       \* entries of Material::all explored by SpecPack
MaxScale == 2           \* scale factors of the transforms SpecOrient draws
MaxShapes == 2          \* shapes of the .obj files SpecLoad draws
MaxFaces == 2           \* faces per shape

\* ------------------------------------------------- program constants
Speed == 25             \* constexpr float speed = 0.25f, in fixed-point units
FX == 4 * Speed         \* fixed-point units per 1.0
PitchMax == 890         \* 89.0f degrees
WINDOW_WIDTH == 1000
WINDOW_HEIGHT == 1000
PT_MATERIALS == 4       \* GL_TEXTURE4, as a texture-unit number
Stride == 4             \* sizeof(CompressedMaterial) / sizeof(glm::vec4)

VARIABLES
    \* camera and pointer input
    transform,          \* camera.transform
    app,                \* app.viewport_focused, app.viewport_hovered
    dragging,           \* static bool dragging
    mouse,              \* statics of mouse_callback: last_x, last_y, first_mouse, yaw, pitch
    cursor_mode,        \* glfwSetInputMode(window, GLFW_CURSOR, ...)
    left_held,          \* environment: the physical left button is down
    press_hovered,      \* history: app.viewport_hovered at the last left press
    last_event,         \* history: the callback that ran last ("drag": a pointer move
                        \* that changed yaw, pitch or the transform)
    \* material packer
    Material_all,       \* Material::all
    materials_upload,   \* the glTexImage2D call of allocate_pt_materials
    \* render loop
    pc,                 \* position of the main thread
    frame,              \* completed iterations of the main loop
    buffers,            \* std::vector <GLBuffers> buffers
    fb,                 \* Framebuffer fb
    fb_status,          \* environment: what glCheckFramebufferStatus answers
    pt,                 \* pt.materials_texture, pt.environment_map, pt.render_target
    gl,                 \* GL context: texture names, active unit, bindings
    future_valid,       \* future.valid()
    loader,             \* the std::async task: "idle", "running", "done"
    loader_result,      \* the tuple the task resolved to
    draw_i,             \* position of the draw loop in buffers (1-based)
    obs,                \* history of the current frame and of the handoff
                        \* (geometry_target -1: no geometry pass yet; gl.vao -1:
                        \* the value of an out-of-bounds read)
    \* load_model
    lm                  \* locals of load_model: position, shape and face counters,
                        \* offset, the vectors and maps, meshes.size(); pushed,
                        \* submesh and first record the last push_back and the
                        \* face the current submesh began at

camVars == <<transform, app, dragging, mouse, cursor_mode, left_held, press_hovered, last_event>>
matVars == <<Material_all, materials_upload>>
loopVars == <<pc, frame, buffers, fb, fb_status, pt, gl, future_valid, loader, loader_result,
             draw_i, obs>>
vars == <<camVars, matVars, loopVars, lm>>

\* ------------------------------------------------ fixed-point numbers
Abs(a) == IF a < 0 THEN -a ELSE a

\* nearest integer to a / b, b > 0
RoundDiv(a, b) ==
    IF a >= 0 THEN (2 * a + b) \div (2 * b) ELSE -((2 * (-a) + b) \div (2 * b))

FMul(a, b) == RoundDiv(a * b, FX)

FDiv(a, b) == IF b > 0 THEN RoundDiv(a * FX, b) ELSE RoundDiv(-(a * FX), -b)

RECURSIVE SqrtFloor(_, _, _)
SqrtFloor(n, lo, hi) ==
    IF lo >= hi THEN lo
    ELSE LET mid == (lo + hi + 1) \div 2
         IN IF mid * mid <= n THEN SqrtFloor(n, mid, hi) ELSE SqrtFloor(n, lo, mid - 1)

\* nearest integer to sqrt(n)
RSqrt(n) ==
    LET r == SqrtFloor(n, 0, n)
    IN IF n - r * r > r THEN r + 1 ELSE r

\* ------------------------------------------------------------ vectors
VAdd(a, b) == <<a[1] + b[1], a[2] + b[2], a[3] + b[3]>>
VScale(a, k) == <<FMul(a[1], k), FMul(a[2], k), FMul(a[3], k)>>
VNeg(a) == <<-a[1], -a[2], -a[3]>>
Dot(a, b) == RoundDiv(a[1] * b[1] + a[2] * b[2] + a[3] * b[3], FX)
Cross(a, b) ==
    <<FMul(a[2], b[3]) - FMul(a[3], b[2]),
      FMul(a[3], b[1]) - FMul(a[1], b[3]),
      FMul(a[1], b[2]) - FMul(a[2], b[1])>>
Length(a) == RSqrt(a[1] * a[1] + a[2] * a[2] + a[3] * a[3])
\* glm::detail::scale(v, 1): v times 1 / length(v)
Normalize(a) == LET l == Length(a) IN <<FDiv(a[1], l), FDiv(a[2], l), FDiv(a[3], l)>>
\* glm::detail::combine(a, b, 1, -k)
Combine(a, b, k) == VAdd(a, VNeg(VScale(b, k)))

Zero3 == <<0, 0, 0>>
Identity == [c0 |-> <<FX, 0, 0>>, c1 |-> <<0, FX, 0>>, c2 |-> <<0, 0, FX>>, c3 |-> Zero3]


\* ------------------------------------------------------- trigonometry
\* sin and cos of the angles the model draws, rounded to the fixed-point unit
\* (first quadrant; 369 and 531 are the 3-4-5 angles, exact in fixed point)
SinQ(a) ==
    CASE a = 0 -> 0
      [] a = 10 -> RoundDiv(175 * FX, 10000)
      [] a = 369 -> RoundDiv(6 * FX, 10)
      [] a = 531 -> RoundDiv(8 * FX, 10)
      [] a = 890 -> RoundDiv(9998 * FX, 10000)
      [] a = 900 -> FX

Sin(a) ==
    LET m == a % 3600
    IN IF m <= 900 THEN SinQ(m)
       ELSE IF m <= 1800 THEN SinQ(1800 - m)
       ELSE IF m <= 2700 THEN -SinQ(m - 1800)
       ELSE -SinQ(3600 - m)

Cos(a) == Sin(a + 900)

\* ---------------------------------------------------------------- glm
\* glm::translate(m, v): m[3] = m[0] * v.x + m[1] * v.y + m[2] * v.z + m[3]
Translate(m, v) ==
    [m EXCEPT !.c3 = VAdd(VAdd(VAdd(VScale(m.c0, v[1]), VScale(m.c1, v[2])),
                               VScale(m.c2, v[3])), m.c3)]

\* glm::scale(m, v): column i times v[i]
Scale(m, v) ==
    [m EXCEPT !.c0 = VScale(m.c0, v[1]), !.c1 = VScale(m.c1, v[2]), !.c2 = VScale(m.c2, v[3])]

\* the linear part of a applied to the vector v
Apply(a, v) == VAdd(VAdd(VScale(a.c0, v[1]), VScale(a.c1, v[2])), VScale(a.c2, v[3]))

\* a * b for affine matrices
MatMul(a, b) ==
    [c0 |-> Apply(a, b.c0), c1 |-> Apply(a, b.c1), c2 |-> Apply(a, b.c2),
     c3 |-> VAdd(Apply(a, b.c3), a.c3)]

\* glm::mat4_cast(glm::quat(glm::vec3(pitch, yaw, 0))): the quaternion built
\* from Euler angles is q_y * q_x, the rotation R_y(yaw) * R_x(pitch)
EulerRotation(pitch, yaw) ==
    LET cp == Cos(pitch)
        sp == Sin(pitch)
        cy == Cos(yaw)
        sy == Sin(yaw)
    IN [c0 |-> <<cy, 0, -sy>>,
        c1 |-> <<FMul(sy, sp), cp, FMul(cy, sp)>>,
        c2 |-> <<FMul(sy, cp), -sp, FMul(cy, cp)>>,
        c3 |-> Zero3]

Det3(m) == Dot(m.c0, Cross(m.c1, m.c2))

\* glm::decompose for an affine matrix: translation, then scale and skew by
\* Gram-Schmidt over the three columns, then the coordinate-flip test.  The
\* orientation it extracts is not modelled: the caller overwrites it.
Decompose(m) ==
    LET row0 == Normalize(m.c0)
        skew_z == Dot(row0, m.c1)
        r1 == Combine(m.c1, row0, skew_z)
        row1 == Normalize(r1)
        skew_y == Dot(row0, m.c2)
        r2a == Combine(m.c2, row0, skew_y)
        skew_x == Dot(row1, r2a)
        r2 == Combine(r2a, row1, skew_x)
        row2 == Normalize(r2)
        scale == <<Length(m.c0), Length(r1), Length(r2)>>
        flip == Dot(row0, Cross(row1, row2)) < 0
    IN IF Det3(m) = 0
       THEN [ok |-> FALSE, translation |-> Zero3, scale |-> Zero3, skew |-> Zero3]
       ELSE [ok |-> TRUE,
             translation |-> m.c3,
             scale |-> IF flip THEN VNeg(scale) ELSE scale,
             skew |-> <<FDiv(skew_x, scale[3]), FDiv(skew_y, scale[3]), FDiv(skew_z, scale[2])>>]

\* what an uninitialised glm::vec3 may hold when decompose returns false
Garbage3 == {Zero3, <<FX, FX, FX>>}

\* the recomposition without its last line
RecomposeNoScale(translation, rotation, scale) ==
    MatMul(Translate(Identity, translation), rotation)

\* transform = translate(mat4(1), translation) * mat4_cast(rotation), then scale
Recompose(translation, rotation, scale) ==
    Scale(MatMul(Translate(Identity, translation), rotation), scale)

\* the orientation update of mouse_callback: the transforms it may store
\* (one, unless decompose failed and left its outputs uninitialised)
SetOrientation(m, pitch, yaw) ==
    LET d == Decompose(m)
    IN {Recompose(t, EulerRotation(pitch, yaw), s) :
            t \in (IF d.ok THEN {d.translation} ELSE Garbage3),
            s \in (IF d.ok THEN {d.scale} ELSE Garbage3)}

\* ----------------------------------------------------- pointer input
\* the clamp without its lower half
ClampPitchUpper(p) == IF p > PitchMax THEN PitchMax ELSE p

ClampPitch(p) ==
    LET p1 == IF p > PitchMax THEN PitchMax ELSE p
    IN IF p1 < -PitchMax THEN -PitchMax ELSE p1

\* cursor positions the events carry, in pixels
Positions == {0, 900, 1800}

mouse_callback(xpos, ypos) ==
    LET lx == IF mouse.first_mouse THEN xpos ELSE mouse.last_x
        ly == IF mouse.first_mouse THEN ypos ELSE mouse.last_y
        xoffset == lx - xpos
        yoffset == ly - ypos
        yaw1 == mouse.yaw + xoffset
        pitch1 == ClampPitch(mouse.pitch + yoffset)
    IN /\ dragging => Abs(yaw1) <= MaxYaw
       /\ mouse' = [last_x |-> xpos, last_y |-> ypos, first_mouse |-> FALSE,
                    yaw |-> IF dragging THEN yaw1 ELSE mouse.yaw,
                    pitch |-> IF dragging THEN pitch1 ELSE mouse.pitch]
       /\ IF dragging
          THEN \E next \in SetOrientation(transform, pitch1, yaw1) : transform' = next
          ELSE UNCHANGED transform

StartsDrag(button, action) ==
    button = "LEFT" /\ action = "PRESS" /\ app.viewport_hovered

\* the release test left out of the else-if
StopsDragHoverOnly(button, action) == ~app.viewport_hovered

StopsDrag(button, action) ==
    (button = "LEFT" /\ action = "RELEASE") \/ ~app.viewport_hovered

mouse_button_callback(button, action) ==
    IF StartsDrag(button, action)
    THEN cursor_mode' = "DISABLED" /\ dragging' = TRUE
    ELSE IF StopsDrag(button, action)
         THEN cursor_mode' = "NORMAL" /\ dragging' = FALSE
         ELSE UNCHANGED <<cursor_mode, dragging>>

\* render_ui_pipeline: ImGui reports whether the viewport is hovered / focused
SetViewportState(hovered, focused) ==
    app' = [viewport_focused |-> focused, viewport_hovered |-> hovered]

\* --- the events, as GLFW and the UI deliver them
MouseMove ==
    \E xpos \in Positions, ypos \in Positions :
        /\ mouse_callback(xpos, ypos)
        /\ last_event' = IF <<transform', mouse'.yaw, mouse'.pitch>>
                                # <<transform, mouse.yaw, mouse.pitch>>
                          THEN "drag" ELSE "move"
        /\ UNCHANGED <<app, dragging, cursor_mode, left_held, press_hovered>>

MouseButton ==
    \E button \in {"LEFT", "RIGHT"}, action \in {"PRESS", "RELEASE"} :
        /\ button = "LEFT" => (action = "PRESS") = ~left_held
        /\ mouse_button_callback(button, action)
        /\ left_held' = IF button = "LEFT" THEN action = "PRESS" ELSE left_held
        /\ press_hovered' = IF button = "LEFT" /\ action = "PRESS"
                            THEN app.viewport_hovered ELSE press_hovered
        /\ last_event' = "button"
        /\ UNCHANGED <<transform, app, mouse>>

UiFrame ==
    \E hovered \in BOOLEAN, focused \in BOOLEAN :
        /\ SetViewportState(hovered, focused)
        /\ last_event' = "ui"
        /\ UNCHANGED <<transform, dragging, mouse, cursor_mode, left_held, press_hovered>>

InitPointer ==
    /\ app = [viewport_focused |-> FALSE, viewport_hovered |-> FALSE]
    /\ dragging = FALSE
    /\ cursor_mode = "NORMAL"
    /\ left_held = FALSE
    /\ press_hovered = FALSE
    /\ last_event = "none"

InitMouse ==
    mouse = [last_x |-> WINDOW_WIDTH \div 2, last_y |-> WINDOW_HEIGHT \div 2,
             first_mouse |-> TRUE, yaw |-> 0, pitch |-> 0]

InitCam == transform = Identity /\ InitMouse /\ InitPointer

\* ---------------------------------------------------- material packer
\* Material: diffuse, specular, emission (vec3) and roughness (float)
Pack4(v, w) == <<v[1], v[2], v[3], w>>

\* specular and emission assigned to each other's field
CompressSwapped(material) ==
    <<Pack4(material.diffuse, FX),
      Pack4(material.emission, FX),
      Pack4(material.specular, FX),
      <<material.roughness, material.roughness, material.roughness, material.roughness>>>>

\* one CompressedMaterial, as its four vec4 in declaration order
Compress(material) ==
    <<Pack4(material.diffuse, FX),
      Pack4(material.specular, FX),
      Pack4(material.emission, FX),
      <<material.roughness, material.roughness, material.roughness, material.roughness>>>>

\* std::vector <CompressedMaterial> materials, in the order of Material::all
CompressAll(all) == [i \in 1..Len(all) |-> Compress(all[i])]

\* materials.data() read as vec4 texels: record i is texels Stride*(i-1)+1 .. Stride*i
Texels(materials) ==
    [k \in 1..(Stride * Len(materials)) |->
        materials[((k - 1) \div Stride) + 1][((k - 1) % Stride) + 1]]

GenTexture(g) == g.textures + 1

\* glBindTexture(GL_TEXTURE_2D, name) on the active unit
BindTexture(g, name) == [g EXCEPT !.unit[g.active] = name]

allocate_pt_materials ==
    LET materials == CompressAll(Material_all)
        name == GenTexture(gl)
    IN /\ pt' = [pt EXCEPT !.materials_texture = name]
       /\ materials_upload' = [width |-> Stride * Len(materials), height |-> 1,
                               pixels |-> Texels(materials)]
       /\ gl' = BindTexture([gl EXCEPT !.textures = name], 0)

InitMat(all) ==
    /\ Material_all = all
    /\ materials_upload = [width |-> 0, height |-> 0, pixels |-> <<>>]

DefaultMaterial ==
    [diffuse |-> <<FX, FX, FX>>, specular |-> Zero3, emission |-> Zero3, roughness |-> FX]

\* ----------------------------------------------------------- load_model
\* tinyobj::index_t
index_t(v, n, t) == [vertex_index |-> v, normal_index |-> n, texcoord_index |-> t]

\* reader.GetAttrib() of the files explored: four positions (the fourth
\* repeats the first), one normal, one texture coordinate
AttribVertices == <<Zero3, <<FX, 0, 0>>, <<0, FX, 0>>, Zero3>>
AttribNormals == <<<<0, 0, FX>>>>
AttribTexcoords == <<<<0, Speed>>>>

\* the faces a shape is drawn from: a triangle with normals; the same
\* triangle through the repeated position; a triangle without normals, its
\* first corner without texture coordinate; a quad that names a corner twice
FacePool ==
    {<<index_t(0, 0, -1), index_t(1, 0, -1), index_t(2, 0, -1)>>,
     <<index_t(3, 0, -1), index_t(1, 0, -1), index_t(2, 0, -1)>>,
     <<index_t(0, -1, -1), index_t(1, -1, 0), index_t(2, -1, 0)>>,
     <<index_t(0, 0, -1), index_t(1, 0, -1), index_t(2, 0, -1), index_t(1, 0, -1)>>}
MaterialIds == {0, 1}

RECURSIVE Flatten(_)
Flatten(faces) == IF faces = <<>> THEN <<>> ELSE Head(faces) \o Flatten(Tail(faces))

\* shapes[i].mesh, as tinyobj lays it out
MeshOf(faces, ids) ==
    [indices |-> Flatten(faces),
     num_face_vertices |-> [k \in 1..Len(faces) |-> Len(faces[k])],
     material_ids |-> ids]

Shapes ==
    UNION {{MeshOf(faces, ids) : faces \in [1..n -> FacePool], ids \in [1..n -> MaterialIds]} :
              n \in 0..MaxFaces}

NoMesh == [indices |-> <<>>, num_face_vertices |-> <<>>, material_ids |-> <<>>]

\* mesh.cpp 116-119, 287-291: the two vectors and the two maps, empty
EmptyLists == [vertices |-> <<>>, indices |-> <<>>, unique_vertices |-> <<>>, index_map |-> <<>>]

\* attrib.vertices[3 * k + 0 .. 2]
Position(k) == AttribVertices[k + 1]

\* mesh.cpp 136-185: the Vertex of corner v of the face at offset
MakeVertex(mesh, offset, fv, v) ==
    LET index == mesh.indices[offset + v + 1]
        position == Position(index.vertex_index)
        pindex == (v - 1 + fv) % fv
        nindex == (v + 1) % fv
        p == mesh.indices[offset + pindex + 1]
        n == mesh.indices[offset + nindex + 1]
        vn == Position(p.vertex_index)
        vp == Position(n.vertex_index)
        e1 == VAdd(vp, VNeg(position))
        e2 == VAdd(vn, VNeg(position))
    IN [position |-> position,
        normal |-> IF index.normal_index >= 0
                   THEN AttribNormals[index.normal_index + 1]
                   ELSE Normalize(Cross(e1, e2)),
        uv |-> IF index.texcoord_index >= 0
               THEN <<AttribTexcoords[index.texcoord_index + 1][1],
                      FX - AttribTexcoords[index.texcoord_index + 1][2]>>
               ELSE <<0, 0>>]

\* mesh.cpp 129-204: one corner of a face
FaceVertex(st, mesh, offset, fv, v) ==
    LET index == mesh.indices[offset + v + 1]
    IN IF index \in DOMAIN st.index_map
       THEN [st EXCEPT !.indices = Append(@, st.index_map[index])]
       ELSE LET vertex == MakeVertex(mesh, offset, fv, v)
                known == vertex \in DOMAIN st.unique_vertices
                id == IF known THEN st.unique_vertices[vertex] ELSE Len(st.vertices)
            IN [vertices |-> IF known THEN st.vertices ELSE Append(st.vertices, vertex),
                indices |-> Append(st.indices, id),
                unique_vertices |-> IF known THEN st.unique_vertices
                                    ELSE (vertex :> id) @@ st.unique_vertices,
                index_map |-> (index :> id) @@ st.index_map]

\* mesh.cpp 128: the loop over the corners of a face, from corner v on
RECURSIVE FaceLoop(_, _, _, _, _)
FaceLoop(st, mesh, offset, fv, v) ==
    IF v < fv
    THEN FaceLoop(FaceVertex(st, mesh, offset, fv, v), mesh, offset, fv, v + 1)
    ELSE st

\* a submesh that ends only where its shape ends
EndsSubmeshAtLastFace(mesh, f) == f = Len(mesh.num_face_vertices) - 1

\* mesh.cpp 211-212: last face, or the material changes (f counts from 0)
EndsSubmesh(mesh, f) ==
    \/ f = Len(mesh.num_face_vertices) - 1
    \/ mesh.material_ids[f + 1] # mesh.material_ids[f + 2]

\* a push that leaves index_map as it was
AfterPushKeepsIndexMap(st) == [EmptyLists EXCEPT !.index_map = st.index_map]

\* mesh.cpp 288-291: the four clear() calls after the push
AfterPush(st) == EmptyLists

InitLoad(start) ==
    lm = [pc |-> start, i |-> 0, mesh |-> NoMesh, f |-> 0, offset |-> 0,
          lists |-> EmptyLists, meshes_size |-> 0,
          pushed |-> FALSE, submesh |-> [vertices |-> <<>>, indices |-> <<>>], first |-> 0]

\* mesh.cpp 81-109: the file is opened and parsed; load_model returns an
\* empty Model when either fails
ReadFile ==
    /\ lm.pc = "read"
    /\ \E ok \in BOOLEAN : lm' = [lm EXCEPT !.pc = IF ok THEN "shape" ELSE "done"]
    /\ UNCHANGED <<camVars, matVars, loopVars>>

\* mesh.cpp 113-122: the next shape, with fresh vectors and maps
StartShape ==
    /\ lm.pc = "shape"
    /\ lm.i < MaxShapes
    /\ \E mesh \in Shapes :
          lm' = [lm EXCEPT !.pc = IF Len(mesh.num_face_vertices) > 0 THEN "face" ELSE "shape",
                           !.i = @ + 1,
                           !.mesh = mesh,
                           !.f = 0,
                           !.offset = 0,
                           !.lists = EmptyLists,
                           !.pushed = FALSE,
                           !.first = 0]
    /\ UNCHANGED <<camVars, matVars, loopVars>>

\* mesh.cpp 123-292: one face: its corners, the offset, and the submesh
\* pushed when the face is the last of its material
ProcessFace ==
    /\ lm.pc = "face"
    /\ LET mesh == lm.mesh
           fv == mesh.num_face_vertices[lm.f + 1]
           st == FaceLoop(lm.lists, mesh, lm.offset, fv, 0)
           ends == EndsSubmesh(mesh, lm.f)
       IN lm' = [lm EXCEPT !.pc = IF lm.f + 1 < Len(mesh.num_face_vertices)
                                  THEN "face" ELSE "shape",
                           !.f = @ + 1,
                           !.offset = @ + fv,
                           !.lists = IF ends THEN AfterPush(st) ELSE st,
                           !.meshes_size = IF ends THEN @ + 1 ELSE @,
                           !.pushed = ends,
                           !.submesh = IF ends
                                    THEN [vertices |-> st.vertices, indices |-> st.indices]
                                    ELSE [vertices |-> <<>>, indices |-> <<>>],
                           !.first = IF lm.pushed THEN lm.f ELSE @]
    /\ UNCHANGED <<camVars, matVars, loopVars>>

\* mesh.cpp 113, 295: no shape is left, return Model {meshes}
ReturnModel ==
    /\ lm.pc = "shape"
    /\ lm' = [lm EXCEPT !.pc = "done"]
    /\ UNCHANGED <<camVars, matVars, loopVars>>

\* --------------------------------------------------------- render loop
InitLoop(start) ==
    /\ pc = start
    /\ frame = 0
    /\ buffers = <<>>
    /\ fb = [framebuffer |-> 0, g_position |-> 0, g_normal |-> 0, g_material_index |-> 0]
    /\ fb_status = "unchecked"
    /\ pt = [materials_texture |-> 0, environment_map |-> 0, render_target |-> 0]
    /\ gl = [textures |-> 0, active |-> 0, unit |-> [u \in 0..5 |-> 0],
             framebuffer |-> 0, vao |-> 0]
    /\ future_valid = FALSE
    /\ loader = "idle"
    /\ loader_result = [data |-> "none", width |-> 0, height |-> 0]
    /\ draw_i = 1
    /\ obs = [steps |-> <<>>, draws |-> <<>>, polls |-> 0, polls_total |-> 0,
              gets |-> 0, uploads |-> 0, frees |-> 0, got_on |-> "none",
              consumed_at |-> -1, waited |-> FALSE, oob_read |-> FALSE,
              geometry_target |-> -1, dispatch_units |-> <<>>]

\* main 120-125: the model and one GLBuffers per submesh
LoadModel ==
    /\ pc = "load_model"
    /\ \E n \in 0..MaxMeshes :
          buffers' = [i \in 1..n |-> [vao |-> i, count |-> 2 * i + 2, material_index |-> 0]]
    /\ pc' = "alloc_framebuffer"
    /\ UNCHANGED <<frame, fb, fb_status, pt, gl, future_valid, loader, loader_result,
                   draw_i, obs>>
    /\ UNCHANGED <<camVars, matVars, lm>>

\* the Framebuffer allocate_gl_framebuffer returns: four textures and the
\* framebuffer object, or the empty handle when the status check fails
allocate_gl_framebuffer(status, first) ==
    IF status # "COMPLETE"
    THEN [framebuffer |-> 0, g_position |-> 0, g_normal |-> 0, g_material_index |-> 0]
    ELSE [framebuffer |-> 1, g_position |-> first, g_normal |-> first + 1,
          g_material_index |-> first + 2]

\* main 132-143: the G-buffer, then the render target; the caller does not
\* look at the handle it got
AllocateGlFramebuffer ==
    /\ pc = "alloc_framebuffer"
    /\ \E status \in {"COMPLETE", "INCOMPLETE"} :
          /\ fb_status' = status
          /\ fb' = allocate_gl_framebuffer(status, GenTexture(gl))
    /\ pt' = [pt EXCEPT !.render_target = gl.textures + 5]
    /\ gl' = [BindTexture([gl EXCEPT !.textures = gl.textures + 5], gl.textures + 5)
                EXCEPT !.framebuffer = 0]
    /\ pc' = "alloc_materials"
    /\ UNCHANGED <<frame, buffers, future_valid, loader, loader_result, draw_i, obs>>
    /\ UNCHANGED <<camVars, matVars, lm>>

\* main 145-146
AllocatePtMaterials ==
    /\ pc = "alloc_materials"
    /\ allocate_pt_materials
    /\ pc' = "launch"
    /\ UNCHANGED <<frame, buffers, fb, fb_status, future_valid, loader, loader_result,
                   draw_i, obs>>
    /\ UNCHANGED <<camVars, Material_all, lm>>

\* main 168: std::async(std::launch::async, exr_loader)
LaunchLoader ==
    /\ pc = "launch"
    /\ future_valid' = TRUE
    /\ loader' = "running"
    /\ pc' = "loop"
    /\ UNCHANGED <<frame, buffers, fb, fb_status, pt, gl, loader_result, draw_i, obs>>
    /\ UNCHANGED <<camVars, matVars, lm>>

\* what exr_loader returns for LoadEXR's return code
exr_loader(ret) ==
    IF ret # 0
    THEN [data |-> "null", width |-> 0, height |-> 0]
    ELSE [data |-> "pixels", width |-> 2, height |-> 1]

\* the background task runs to completion
ExrLoader ==
    /\ loader = "running"
    /\ \E ret \in {0, -1} : loader_result' = exr_loader(ret)
    /\ loader' = "done"
    /\ UNCHANGED <<pc, frame, buffers, fb, fb_status, pt, gl, future_valid, draw_i, obs>>
    /\ UNCHANGED <<camVars, matVars, lm>>

\* main 171, 205-210: glfwWindowShouldClose answers true
WindowClosed ==
    /\ pc = "loop"
    /\ pc' = "terminated"
    /\ UNCHANGED <<frame, buffers, fb, fb_status, pt, gl, future_valid, loader,
                   loader_result, draw_i, obs>>
    /\ UNCHANGED <<camVars, matVars, lm>>

\* the keys held in a frame, and the translation they add up to
KeySets == {{}, {"W"}, {"S"}, {"D"}, {"W", "S"}}
Axis(keys, plus, minus) ==
    (IF plus \in keys THEN Speed ELSE 0) - (IF minus \in keys THEN Speed ELSE 0)
Diff(keys) == <<Axis(keys, "D", "A"), Axis(keys, "E", "Q"), Axis(keys, "S", "W")>>

\* main 172-192
HandleCameraMovement ==
    /\ pc = "loop"
    /\ frame < MaxFrames
    /\ IF app.viewport_focused
       THEN \E keys \in KeySets :
               transform' = Translate(transform, Diff(keys))
       ELSE UNCHANGED transform
    /\ obs' = [obs EXCEPT !.steps = <<"input">>, !.draws = <<>>, !.polls = 0]
    /\ pc' = "geometry"
    /\ UNCHANGED <<frame, buffers, fb, fb_status, pt, gl, future_valid, loader,
                   loader_result, draw_i>>
    /\ UNCHANGED <<app, dragging, mouse, cursor_mode, left_held, press_hovered, last_event,
                   matVars, lm>>

\* render_pt_pipeline 419-441: bind and clear the target, set the uniforms,
\* bind buffers[0].vao.  On an empty vector the read of buffers[0] is out of
\* bounds: the process may fault, or go on with whatever the read gave.
GeometryPass ==
    /\ pc = "geometry"
    /\ draw_i' = 1
    /\ IF Len(buffers) > 0
       THEN /\ gl' = [gl EXCEPT !.framebuffer = fb.framebuffer, !.vao = buffers[1].vao]
            /\ obs' = [obs EXCEPT !.steps = Append(@, "clear"),
                                  !.geometry_target = fb.framebuffer]
            /\ pc' = "draw"
       ELSE /\ gl' = [gl EXCEPT !.framebuffer = fb.framebuffer, !.vao = -1]
            /\ obs' = [obs EXCEPT !.steps = Append(@, "clear"), !.oob_read = TRUE,
                                  !.geometry_target = fb.framebuffer]
            /\ pc' \in {"draw", "crashed"}
    /\ UNCHANGED <<frame, buffers, fb, fb_status, pt, future_valid, loader, loader_result>>
    /\ UNCHANGED <<camVars, matVars, lm>>

\* a draw loop that stops one submesh early
MoreDrawsShort == draw_i < Len(buffers)

\* the condition of the range-for over buffers
MoreDraws == draw_i <= Len(buffers)

\* render_pt_pipeline 442-448: one iteration of the draw loop
DrawSubmesh ==
    /\ pc = "draw"
    /\ MoreDraws
    /\ gl' = [gl EXCEPT !.vao = buffers[draw_i].vao]
    /\ obs' = [obs EXCEPT !.steps = Append(@, "draw"),
                          !.draws = Append(@, [vao |-> buffers[draw_i].vao,
                                               count |-> buffers[draw_i].count,
                                               material_index |-> buffers[draw_i].material_index])]
    /\ draw_i' = draw_i + 1
    /\ UNCHANGED <<pc, frame, buffers, fb, fb_status, pt, future_valid, loader, loader_result>>
    /\ UNCHANGED <<camVars, matVars, lm>>

\* glActiveTexture(GL_TEXTURE0 + u); glBindTexture(GL_TEXTURE_2D, name)
BindUnit(g, u, name) == [g EXCEPT !.active = u, !.unit[u] = name]

\* render_pt_pipeline 450-464
BindTextures ==
    /\ pc = "draw"
    /\ ~MoreDraws
    /\ gl' = BindUnit(BindUnit(BindUnit(BindUnit(gl, 1, fb.g_position), 2, fb.g_normal),
                               4, fb.g_material_index), 3, pt.materials_texture)
    /\ obs' = [obs EXCEPT !.steps = Append(@, "bind")]
    /\ pc' = "env"
    /\ UNCHANGED <<frame, buffers, fb, fb_status, pt, future_valid, loader, loader_result,
                   draw_i>>
    /\ UNCHANGED <<camVars, matVars, lm>>

\* a readiness check that never reports the task as finished
WaitForZeroNever == "timeout"

\* future.wait_for(std::chrono::seconds(0))
WaitForZero == IF loader = "done" THEN "ready" ELSE "timeout"

\* get() called without looking at the status
TakesResultAlways(status) == TRUE

\* the condition under which the frame calls future.get()
TakesResult(status) == status = "ready"

\* a handle that stays valid after get(), as a shared_future does
ValidAfterGetShared == TRUE

\* future.valid() once get() has returned
ValidAfterGet == FALSE

\* render_pt_pipeline 466-494.  future.get() on a task that is still running
\* would keep the thread inside get() until the task is done.
EnvironmentMap ==
    /\ pc = "env"
    /\ IF future_valid
       THEN LET status == WaitForZero
            IN IF TakesResult(status)
               THEN IF loader # "done"
                    THEN /\ obs' = [obs EXCEPT !.waited = TRUE]
                         /\ UNCHANGED <<pc, pt, gl, future_valid>>
                    ELSE LET name == GenTexture(gl)
                             g1 == BindTexture([gl EXCEPT !.textures = name], name)
                             g2 == BindTexture(g1, 0)
                         IN /\ future_valid' = ValidAfterGet
                            /\ pt' = [pt EXCEPT !.environment_map = name]
                            /\ gl' = BindUnit(g2, 5, 0)
                            /\ obs' = [obs EXCEPT !.steps = Append(@, "env"),
                                                  !.polls = @ + 1,
                                                  !.polls_total = @ + 1,
                                                  !.gets = @ + 1,
                                                  !.uploads = @ + 1,
                                                  !.frees = @ + 1,
                                                  !.got_on = status,
                                                  !.consumed_at = frame]
                            /\ pc' = "dispatch"
               ELSE /\ gl' = BindUnit(gl, 5, 0)
                    /\ obs' = [obs EXCEPT !.steps = Append(@, "env"),
                                          !.polls = @ + 1, !.polls_total = @ + 1]
                    /\ pc' = "dispatch"
                    /\ UNCHANGED <<pt, future_valid>>
       ELSE /\ gl' = BindUnit(gl, 5, pt.environment_map)
            /\ obs' = [obs EXCEPT !.steps = Append(@, "env")]
            /\ pc' = "dispatch"
            /\ UNCHANGED <<pt, future_valid>>
    /\ UNCHANGED <<frame, buffers, fb, fb_status, loader, loader_result, draw_i>>
    /\ UNCHANGED <<camVars, matVars, lm>>

\* render_pt_pipeline 496-506: output image, camera uniforms, glDispatchCompute
Dispatch ==
    /\ pc = "dispatch"
    /\ obs' = [obs EXCEPT !.steps = Append(@, "dispatch"), !.dispatch_units = gl.unit]
    /\ pc' = "ui"
    /\ UNCHANGED <<frame, buffers, fb, fb_status, pt, gl, future_valid, loader,
                   loader_result, draw_i>>
    /\ UNCHANGED <<camVars, matVars, lm>>

\* main 198: render_ui_pipeline draws the render target into the viewport
\* panel and stores what ImGui says about hover and focus
RenderUiPipeline ==
    /\ pc = "ui"
    /\ \E hovered \in BOOLEAN, focused \in BOOLEAN : SetViewportState(hovered, focused)
    /\ gl' = [gl EXCEPT !.framebuffer = 0]
    /\ obs' = [obs EXCEPT !.steps = Append(@, "ui")]
    /\ pc' = "swap"
    /\ UNCHANGED <<frame, buffers, fb, fb_status, pt, future_valid, loader, loader_result,
                   draw_i>>
    /\ UNCHANGED <<transform, dragging, mouse, cursor_mode, left_held, press_hovered,
                   last_event, matVars, lm>>

\* main 200-203: glfwSwapBuffers, glfwPollEvents, back to the loop condition
SwapAndPoll ==
    /\ pc = "swap"
    /\ frame' = frame + 1
    /\ pc' = "loop"
    /\ UNCHANGED <<buffers, fb, fb_status, pt, gl, future_valid, loader, loader_result,
                   draw_i, obs>>
    /\ UNCHANGED <<camVars, matVars, lm>>

Init == InitCam /\ InitMat(<<DefaultMaterial>>) /\ InitLoop("load_model") /\ InitLoad("idle")

Next ==
    \/ LoadModel
    \/ AllocateGlFramebuffer
    \/ AllocatePtMaterials
    \/ LaunchLoader
    \/ ExrLoader
    \/ WindowClosed
    \/ HandleCameraMovement
    \/ GeometryPass
    \/ DrawSubmesh
    \/ BindTextures
    \/ EnvironmentMap
    \/ Dispatch
    \/ RenderUiPipeline
    \/ SwapAndPoll

Spec == Init /\ [][Next]_vars

\* ----------------------------------------------------------- SpecLive
\* The same program under the scheduling the code relies on: the main thread
\* always takes its next step (main is straight-line code and a loop whose
\* body has no blocking call), and the thread std::async started runs
\* exr_loader to its return.  Closing the window is up to the user.
MainThread ==
    \/ LoadModel
    \/ AllocateGlFramebuffer
    \/ AllocatePtMaterials
    \/ LaunchLoader
    \/ HandleCameraMovement
    \/ GeometryPass
    \/ DrawSubmesh
    \/ BindTextures
    \/ EnvironmentMap
    \/ Dispatch
    \/ RenderUiPipeline
    \/ SwapAndPoll

SpecLive == Init /\ [][Next]_vars /\ WF_vars(MainThread) /\ WF_vars(ExrLoader)

\* --------------------------------------------------------- SpecInput
\* The pointer callbacks and the UI's per-frame update, in any interleaving.
InitInput == InitCam /\ InitMat(<<DefaultMaterial>>) /\ InitLoop("swap") /\ InitLoad("idle")

NextInput ==
    \/ MouseMove /\ UNCHANGED <<matVars, loopVars, lm>>
    \/ MouseButton /\ UNCHANGED <<matVars, loopVars, lm>>
    \/ UiFrame /\ UNCHANGED <<matVars, loopVars, lm>>

SpecInput == InitInput /\ [][NextInput]_vars

\* --------------------------------------------------------- SpecOrient
\* The orientation update on its own (main.cpp 253-271), applied to the
\* zero-skew transforms translate * rotate * scale.  The angles are those
\* whose sine and cosine are exact in fixed point, so that the transforms
\* drawn have exactly zero skew.
PitchAngles == {0, 369, -531}
YawAngles == {0, 369, -531, 900, 1800}
Translations == {Zero3, <<Speed, -2 * Speed, 3 * FX>>}
ScaleFactors == {k * FX : k \in 1..MaxScale}

\* the transform with translation t, rotation (p, y, 0) and scale sc: the
\* columns of the rotation times the scale factors, and t
ZeroSkewTransform(t, p, y, sc) ==
    LET r == EulerRotation(p, y)
    IN [c0 |-> VScale(r.c0, sc[1]), c1 |-> VScale(r.c1, sc[2]),
        c2 |-> VScale(r.c2, sc[3]), c3 |-> t]

InitOrient ==
    /\ InitPointer /\ InitMat(<<DefaultMaterial>>) /\ InitLoop("swap") /\ InitLoad("idle")
    /\ \E t \in Translations, p \in PitchAngles, y \in YawAngles,
          sx \in ScaleFactors, sy \in ScaleFactors, sz \in ScaleFactors :
           /\ transform = ZeroSkewTransform(t, p, y, <<sx, sy, sz>>)
           /\ mouse = [last_x |-> WINDOW_WIDTH \div 2, last_y |-> WINDOW_HEIGHT \div 2,
                       first_mouse |-> FALSE, yaw |-> y, pitch |-> p]

OrientationUpdate ==
    \E pitch \in PitchAngles, yaw \in YawAngles :
        /\ \E next \in SetOrientation(transform, pitch, yaw) : transform' = next
        /\ mouse' = [mouse EXCEPT !.pitch = pitch, !.yaw = yaw]
        /\ last_event' = "orient"
        /\ UNCHANGED <<app, dragging, cursor_mode, left_held, press_hovered>>

NextOrient == OrientationUpdate /\ UNCHANGED <<matVars, loopVars, lm>>

SpecOrient == InitOrient /\ [][NextOrient]_vars

\* ----------------------------------------------------------- SpecPack
\* allocate_pt_materials on the material tables of up to MaxMaterials entries.
Colors == {Zero3, <<FX, 2 * Speed, Speed>>}
Roughnesses == {Speed, FX}
Materials ==
    [diffuse : Colors, specular : Colors, emission : Colors, roughness : Roughnesses]
MaterialTables == UNION {[1..n -> Materials] : n \in 0..MaxMaterials}

InitPack ==
    /\ InitCam /\ InitLoop("alloc_materials") /\ InitLoad("idle")
    /\ \E all \in MaterialTables : InitMat(all)

NextPack == AllocatePtMaterials

SpecPack == InitPack /\ [][NextPack]_vars

\* ----------------------------------------------------------- SpecLoad
\* load_model on the .obj files whose shapes are drawn from Shapes.
InitLoadModel ==
    InitCam /\ InitMat(<<DefaultMaterial>>) /\ InitLoop("load_model") /\ InitLoad("read")

NextLoad ==
    \/ ReadFile
    \/ StartShape
    \/ ProcessFace
    \/ ReturnModel

SpecLoad == InitLoadModel /\ [][NextLoad]_vars

\* -------------------------------------------------------------- claims
IsPrefix(a, b) == Len(a) <= Len(b) /\ \A k \in 1..Len(a) : a[k] = b[k]

\* C1: the decoded environment result is consumed (get, upload, release of
\* the CPU buffer) at most once, and from the frame that consumed it on no
\* frame polls the handle or uploads again.
C1_ConsumedOnce ==
    /\ [](obs.gets <= 1 /\ obs.uploads <= 1 /\ obs.frees <= 1)
    /\ [][obs.gets >= 1 => /\ obs'.polls_total = obs.polls_total
                           /\ obs'.gets = obs.gets
                           /\ obs'.uploads = obs.uploads
                           /\ obs'.frees = obs.frees]_vars

\* three frames have completed since the one that consumed the result
C1_Witness == obs.consumed_at >= 0 /\ frame >= obs.consumed_at + 3 /\ obs.polls_total = 1

\* C2: when the decode resolved to the failure sentinel, the frame that
\* takes the result creates no environment image: pt.environment_map stays 0.
C2_FailedDecodeCreatesNoImage ==
    (obs.gets >= 1 /\ loader_result.data = "null") => pt.environment_map = 0

\* C3: with an incomplete framebuffer the handle is empty and no frame runs
\* the geometry pass or the compute dispatch against it.
C3_IncompleteNeverRenders ==
    fb_status = "INCOMPLETE" =>
        /\ fb.framebuffer = 0
        /\ obs.geometry_target = -1
        /\ obs.dispatch_units = <<>>

\* C4: with an empty submesh list a frame issues no draw, touches no
\* geometry buffer and completes normally.
C4_EmptyModelFrame ==
    (pc # "load_model" /\ Len(buffers) = 0) =>
        /\ obs.draws = <<>>
        /\ ~obs.oob_read
        /\ pc # "crashed"

\* C5: the render loop never waits for the decode task: at most one
\* readiness check per frame, get() only after a check that said ready, and
\* the thread is never held inside get().
C5_NeverWaits ==
    /\ ~obs.waited
    /\ obs.polls <= 1
    /\ obs.got_on \in {"none", "ready"}
    /\ obs.gets > 0 => loader = "done"

\* two frames have completed, each with its poll, while the task is pending
C5_Witness == frame >= 2 /\ loader = "running" /\ obs.polls_total >= 2 /\ pc = "loop"

\* the steps of one frame, for the submeshes loaded
FrameOrder ==
    <<"input", "clear">> \o [i \in 1..Len(buffers) |-> "draw"]
        \o <<"bind", "env", "dispatch", "ui">>

\* C6: every iteration runs input, geometry pass (clear, then every draw in
\* load order), texture binding and environment poll, dispatch, UI, in this
\* order, none left out; the dispatch follows all draws of its frame.
C6_FrameOrder ==
    /\ IsPrefix(obs.steps, FrameOrder)
    /\ (pc = "swap" \/ (pc \in {"loop", "terminated"} /\ frame > 0)) => obs.steps = FrameOrder
    /\ \A k \in 1..Len(obs.draws) :
          /\ k <= Len(buffers)
          /\ obs.draws[k] = [vao |-> buffers[k].vao, count |-> buffers[k].count,
                             material_index |-> buffers[k].material_index]
    /\ pc \in {"ui", "swap"} => Len(obs.draws) = Len(buffers)

C6_Witness == pc = "swap" /\ frame >= 1 /\ Len(buffers) = 2 /\ Len(obs.draws) = 2

\* C7: the stored pitch lies in [-89, 89] degrees after any pointer moves,
\* clamping it again changes nothing, and a dragging move adds the whole
\* x offset to yaw, however large.
C7_PitchClamped ==
    /\ [](/\ mouse.pitch >= -PitchMax
          /\ mouse.pitch <= PitchMax
          /\ ClampPitch(mouse.pitch) = mouse.pitch)
    /\ [][(last_event' \in {"move", "drag"} /\ dragging) =>
            mouse'.yaw = mouse.yaw + (IF mouse.first_mouse THEN 0
                                      ELSE mouse.last_x - mouse'.last_x)]_vars

\* pitch sits on the clamp while yaw has gone past it
C7_Witness == last_event = "drag" /\ mouse.pitch = -PitchMax /\ mouse.yaw > PitchMax

\* C8: the orientation update leaves the translation and the scale of a
\* zero-skew transform as they were.
C8_OrientPreserves ==
    [][/\ Decompose(transform).ok
       /\ Decompose(transform).skew = Zero3
       /\ Decompose(transform').ok
       /\ Decompose(transform').translation = Decompose(transform).translation
       /\ Decompose(transform').scale = Decompose(transform).scale]_vars

\* an update has turned a translated, non-uniformly scaled transform
C8_Witness ==
    /\ last_event = "orient"
    /\ mouse.pitch # 0
    /\ transform.c3 # Zero3
    /\ Decompose(transform).scale[1] # Decompose(transform).scale[2]

\* C9: N materials give N packed records, uploaded 4 * N texels wide and 1
\* high; record i (texels 4i .. 4i+3, from 0) holds material i's diffuse,
\* specular, emission and roughness.
C9_PackFaithful ==
    pc = "launch" =>
        /\ materials_upload.width = 4 * Len(Material_all)
        /\ materials_upload.height = 1
        /\ Len(materials_upload.pixels) = 4 * Len(Material_all)
        /\ \A i \in 0..(Len(Material_all) - 1) :
              LET texel(k) == materials_upload.pixels[4 * i + k + 1]
                  rgb(t) == <<t[1], t[2], t[3]>>
              IN /\ rgb(texel(0)) = Material_all[i + 1].diffuse
                 /\ rgb(texel(1)) = Material_all[i + 1].specular
                 /\ rgb(texel(2)) = Material_all[i + 1].emission
                 /\ texel(3)[1] = Material_all[i + 1].roughness

C9_Witness ==
    /\ pc = "launch"
    /\ Len(Material_all) = 2
    /\ Material_all[1] # Material_all[2]
    /\ Material_all[1].specular # Material_all[1].emission

\* C10, as claimed: a pointer move that changed yaw, pitch or the transform
\* happened with the left button held and viewport_hovered true.
C10_DragOnlyWhileHovered ==
    last_event = "drag" => (left_held /\ app.viewport_hovered)

\* C10, amended: a pointer move that changed yaw, pitch or the transform
\* happened while dragging was set; dragging is set only while the left
\* button is held after a press that found viewport_hovered true.
C10_DragOnlyWhileDragging ==
    /\ last_event = "drag" => dragging
    /\ dragging => (left_held /\ press_hovered)

\* a drag went on after the UI reported the viewport as no longer hovered
C10_Witness == last_event = "drag" /\ dragging /\ ~app.viewport_hovered

\* C11, as claimed: at every compute dispatch unit 5 holds the environment
\* image that exists at that moment: 0 while none has been uploaded, the
\* uploaded image from the frame of the upload on.
C11_EnvSlotCurrent ==
    pc = "ui" => obs.dispatch_units[5] = pt.environment_map

\* a frame that has not reached its environment step yet is still to come
FrameToCome ==
    \/ frame + 1 < MaxFrames
    \/ frame < MaxFrames /\ pc \in {"loop", "geometry", "draw", "env"}

\* C12: while the result has not been taken, every frame that got as far as
\* its environment step polled the handle, the frame that took it was polled
\* in too; and once the decode task has finished with a frame still to come,
\* a frame takes the result (uploading the image when the decode succeeded)
\* unless the loop stops first.
C12_PolledUntilResolved ==
    /\ [](obs.gets = 0 =>
             obs.polls_total = frame + (IF pc \in {"dispatch", "ui", "swap"} THEN 1 ELSE 0))
    /\ [](obs.gets >= 1 => obs.polls_total = obs.consumed_at + 1)
    /\ (loader = "done" /\ FrameToCome)
          ~> \/ pc \in {"terminated", "crashed"}
             \/ /\ obs.gets >= 1
                /\ loader_result.data = "pixels" => pt.environment_map # 0

\* the task was pending through two polled frames and the third took the
\* decoded image
C12_Witness ==
    /\ obs.consumed_at = 2
    /\ obs.polls_total = 3
    /\ loader_result.data = "pixels"
    /\ pt.environment_map # 0

\* C13, as claimed: at every dispatch the packed material texture sits on
\* the unit PT_MATERIALS names, and position, normal, material index, packed
\* materials and environment each sit on a unit of their own.
C13_UnitsAgree ==
    (pc = "ui" /\ fb_status = "COMPLETE") =>
        /\ obs.dispatch_units[PT_MATERIALS] = pt.materials_texture
        /\ \A name \in {fb.g_position, fb.g_normal, fb.g_material_index,
                        pt.materials_texture} :
              Cardinality({u \in 0..5 : obs.dispatch_units[u] = name}) = 1
        /\ obs.dispatch_units[5] \in {0, pt.environment_map}

\* the corners of the faces before face f (f counts from 0)
RECURSIVE CornersBefore(_, _)
CornersBefore(mesh, f) ==
    IF f = 0 THEN 0 ELSE mesh.num_face_vertices[f] + CornersBefore(mesh, f - 1)

\* C14: after every face, a submesh has been pushed exactly when the face
\* is the last of its shape or the next face has another material id; the
\* pushed submesh covers the faces since the previous push, all of one
\* material; its index list has one entry per corner of those faces, and
\* every entry is below the length of its own vertex list and selects a
\* vertex at the position the corner names.
C14_SubmeshWellFormed ==
    (lm.pc \in {"face", "shape"} /\ lm.f >= 1) =>
        LET mesh == lm.mesh
            last == lm.f - 1
            from == lm.first
            lo == CornersBefore(mesh, from)
            hi == CornersBefore(mesh, lm.f)
            m == lm.submesh
        IN /\ lm.pushed <=> \/ last = Len(mesh.num_face_vertices) - 1
                            \/ mesh.material_ids[last + 1] # mesh.material_ids[last + 2]
           /\ lm.offset = hi
           /\ lm.pushed =>
                 /\ from <= last
                 /\ \A k \in from..last : mesh.material_ids[k + 1] = mesh.material_ids[from + 1]
                 /\ from = 0 \/ mesh.material_ids[from] # mesh.material_ids[from + 1]
                 /\ Len(m.indices) = hi - lo
                 /\ \A k \in 1..Len(m.indices) :
                       /\ m.indices[k] < Len(m.vertices)
                       /\ m.vertices[m.indices[k] + 1].position
                             = Position(mesh.indices[lo + k].vertex_index)

\* the second shape's second submesh, begun after a change of material,
\* holds fewer vertices than indices
C14_Witness ==
    /\ lm.pushed
    /\ lm.i = 2
    /\ lm.first = 1
    /\ lm.meshes_size >= 3
    /\ Len(lm.submesh.vertices) < Len(lm.submesh.indices)

=============================================================================
